---- MODULE Spec2Model ----
(***************************************************************************)
(* State-machine model of the SignViewer component                         *)
(* (src/src/app/sign-viewer/sign-viewer.ts) and of the readiness check of  *)
(* AuthPdf (src/src/app/service/auth-pdf.ts).                              *)
(*                                                                         *)
(* JavaScript runs one handler at a time and a handler gives up control    *)
(* only at an await.  Every action below is therefore one run-to-await     *)
(* segment of the code: a user call, or the arrival of the answer to the   *)
(* one call a coroutine is waiting for, followed by everything the code    *)
(* does until its next await.                                              *)
(***************************************************************************)
EXTENDS Integers, Sequences, FiniteSets, TLC

\* ---------------------------------------------------------------- bounds
\* largest number of signing sessions an ACCEPT response carries
MaxInvoices == 3
\* cap on the PREPARE requests issued over all signing runs
MaxPrepares == 3
\* cap on the signWithCert invocations that pass their guards
MaxRuns == 2
\* cap on the failing answers (rejected calls, invalid bodies, a negative
\* readiness check) over one behaviour; one more is taken while a signing
\* run overlaps the batch load
MaxFaults == 1
\* cap on the loadCertificates calls that wait for their answer at one time
MaxCertLoads == 2

\* ---------------------------------------------------------------- values
\* null / undefined / absent, for string values; an optional object is a
\* sequence, empty when the object is absent
NULL == "null"

\* JavaScript truthiness of a string-or-null value
Truthy(v) == v \notin { NULL, "" }

\* a ?? b
Coalesce(a, b) == IF a # NULL THEN a ELSE b

\* the certificates the template can pass to signWithCert
Certs ==
  { [alias |-> "alias1", serialNumber |-> "sn1", algorithm |-> "SHA1WithRSA"],
    [alias |-> "alias2", serialNumber |-> "sn2", algorithm |-> "SHA256WithRSA"] }

\* the k-th session of an ACCEPT response
Session(k) ==
  [ documentIdentifier |-> 100 + k, signingSessionId |-> 10 + k, invoiceId |-> k ]

\* ACCEPT response bodies: null (isNull), or signingSessions of length
\* 0..MaxInvoices
AcceptResponses ==
  { [ isNull |-> TRUE, signingSessions |-> << >> ] } \cup
  { [ isNull |-> FALSE, signingSessions |-> [ k \in 1..n |-> Session(k) ] ] : n \in 0..MaxInvoices }

\* errors a rejected HTTP call carries: status, error.message, message
HttpErrors ==
  { [ status |-> 400, errMsg |-> NULL,  message |-> "http400" ],
    [ status |-> 401, errMsg |-> "srv", message |-> "http401" ],
    [ status |-> 404, errMsg |-> NULL,  message |-> "http404" ],
    [ status |-> 500, errMsg |-> "srv", message |-> "http500" ],
    [ status |-> 500, errMsg |-> NULL,  message |-> "http500" ],
    [ status |-> 500, errMsg |-> NULL,  message |-> NULL ],
    [ status |-> 0,   errMsg |-> NULL,  message |-> NULL ] }

\* the errors used for the calls of the signing loop: the server's error
\* with a message, and no connection
CallErrors == { e \in HttpErrors : e.status = 0 \/ (e.status = 500 /\ e.errMsg # NULL) }

\* the page counts of the PDFs
PageCounts == { 1, 2 }

\* PREPARE response bodies.  signingSessionId is a value of the server's
\* choosing: a token no invoice got from ACCEPT.  The second body lacks the
\* digest.
PrepareResponses ==
  { [ signingSessionId |-> 99, sessionId |-> 98, digest |-> "dgA" ],
    [ signingSessionId |-> 99, sessionId |-> 11, digest |-> NULL ] }

\* agent sign response bodies for a request: the signature the key makes of
\* the request's digest with the certificate of the request's alias, or a
\* body that lacks one of the two
AgentResponses(req) ==
  { [ signatureValue |-> "sig/" \o req.digest, certificate |-> "crt/" \o req.alias ],
    [ signatureValue |-> NULL, certificate |-> "crt/" \o req.alias ],
    [ signatureValue |-> "sig/" \o req.digest, certificate |-> "" ] }

\* answers of GET /api/certificates as the readiness check sees them
CertListAnswers ==
  { [ ok |-> TRUE,  res |-> "list",    status |-> 200 ],
    [ ok |-> TRUE,  res |-> "empty",   status |-> 200 ],
    [ ok |-> TRUE,  res |-> "failure", status |-> 200 ],
    [ ok |-> TRUE,  res |-> NULL,      status |-> 200 ],
    [ ok |-> FALSE, res |-> NULL,      status |-> 0 ],
    [ ok |-> FALSE, res |-> NULL,      status |-> 500 ] }

\* ---------------------------------------------------------------- state
VARIABLES
  initPc,          \* where ngOnInit / acceptAndLoadPdfs stands: "new", "accept",
                   \* "loading", or where it returned: "noId", "empty", "failed", "done"
  isLoading,
  termsAccepted,
  signedSuccess,
  isSigning,
  invoices,        \* sequence of InvoiceView
  currentPage,
  signingProgress,
  swal,            \* the dialog on screen
  loads,           \* one loadInvoicePdf coroutine per invoice
  runs,            \* the signWithCert invocations that passed their guards
  acceptSessions,  \* history: the sessions the ACCEPT response carried
  faults,          \* history: the failing answers so far
  selectedCert,
  certificates,
  expandedCertIndex, \* << >> for null, << index >> for a number
  certLoads,       \* the loadCertificates calls that wait for their answer
  destroyed,       \* ngOnDestroy has run: destroy$ has emitted and completed
  build            \* the source the component is built from: "sign-viewer.ts",
                   \* or the variant "part_002"

\* the fields of the certificate choice
certVars == << selectedCert, certificates, expandedCertIndex, certLoads >>

vars ==
  << initPc, isLoading, termsAccepted, signedSuccess, isSigning, invoices,
     currentPage, signingProgress, swal, loads, runs, acceptSessions, faults,
     certVars, destroyed, build >>

\* ---------------------------------------------------------------- helpers
\* private extractServerMessage(error)
ExtractServerMessage(e) == Coalesce(e.errMsg, e.message)

\* `${documentIdentifier} (N°${invoiceId})`
Label(session) == << session.documentIdentifier, session.invoiceId >>

\* the InvoiceView built from one ACCEPT session
NewInvoiceView(session) ==
  [ session |-> session, pages |-> << >>, loading |-> TRUE, error |-> NULL,
    signed |-> FALSE, prepareResp |-> << >>, agentResp |-> << >> ]

\* the locals of one loadInvoicePdf call at its first await
NewLoad == [ pc |-> "fetch", objectUrl |-> "null", numPages |-> 0, pages |-> << >>, i |-> 0 ]

\* no dialog on screen (initially, and after Swal.close())
NoSwal == [ title |-> "none", text |-> "" ]

\* Swal.fire({ title, text })
Dialog(title, text) == [ title |-> title, text |-> text ]

\* a signing run is under way while PDF loads of the batch are pending
Overlap == isLoading /\ isSigning

\* an answer is taken; a failing one counts against MaxFaults, and one more
\* is taken while a signing run overlaps the batch load
Fault(failing) ==
  IF failing
    THEN faults < MaxFaults + (IF Overlap THEN 1 ELSE 0) /\ faults' = faults + 1
    ELSE faults' = faults

\* ---------------------------------------------------------------- init
\* the component after construction, built from the source b
InitOf(b) ==
  /\ initPc = "new"
  /\ isLoading = TRUE
  /\ termsAccepted = FALSE
  /\ signedSuccess = FALSE
  /\ isSigning = FALSE
  /\ invoices = << >>
  /\ currentPage = 0
  /\ signingProgress = << >>
  /\ swal = NoSwal
  /\ loads = << >>
  /\ runs = << >>
  /\ acceptSessions = << >>
  /\ faults = 0
  /\ selectedCert = ""
  /\ certificates = << >>
  /\ expandedCertIndex = << >>
  /\ certLoads = 0
  /\ destroyed = FALSE
  /\ build = b

Init == InitOf("sign-viewer.ts")

\* ------------------------------------------------- ngOnInit, ACCEPT, PDFs
\* ngOnInit(): the route's id is missing, or acceptAndLoadPdfs() runs up to
\* its await of the ACCEPT call
NgOnInit(id) ==
  /\ initPc = "new"
  /\ Fault(FALSE)
  /\ UNCHANGED << certVars, destroyed, build >>
  /\ IF id = ""
       THEN /\ isLoading' = FALSE
            /\ swal' = Dialog("Document invalide", "missingId")
            /\ initPc' = "noId"
       ELSE /\ isLoading' = TRUE
            /\ swal' = swal
            /\ initPc' = "accept"
  /\ UNCHANGED << termsAccepted, signedSuccess, isSigning, invoices, currentPage,
                  signingProgress, loads, runs, acceptSessions >>

\* !resp?.signingSessions?.length
NoSessions(resp) == resp.isNull \/ Len(resp.signingSessions) = 0

\* acceptAndLoadPdfs(): the ACCEPT call answers with a body
AcceptRespond(resp) ==
  /\ initPc = "accept"
  /\ Fault(FALSE)
  /\ UNCHANGED << certVars, destroyed, build >>
  /\ acceptSessions' = resp.signingSessions
  /\ IF NoSessions(resp)
       THEN /\ swal' = Dialog("Aucune facture", "noInvoice")
            /\ isLoading' = FALSE
            /\ initPc' = "empty"
            /\ UNCHANGED << invoices, currentPage, loads >>
       ELSE /\ invoices' = [ k \in 1..Len(resp.signingSessions) |->
                                NewInvoiceView(resp.signingSessions[k]) ]
            /\ currentPage' = 0
            /\ loads' = [ k \in 1..Len(resp.signingSessions) |-> NewLoad ]
            /\ initPc' = "loading"
            /\ UNCHANGED << swal, isLoading >>
  /\ UNCHANGED << termsAccepted, signedSuccess, isSigning, signingProgress, runs >>

\* a classification that takes only status 400 for an expired session
AcceptErrorDialogNo401(e) ==
  IF e.status = 400
    THEN Dialog("Session expiree", "sessionExpired")
    ELSE IF e.status = 404
      THEN Dialog("Lien invalide", "invalidLink")
      ELSE Dialog("Erreur", Coalesce(ExtractServerMessage(e), "loadFailed"))

\* the dialog acceptAndLoadPdfs() shows for a failed ACCEPT call
AcceptErrorDialog(e) ==
  IF e.status = 400 \/ e.status = 401
    THEN Dialog("Session expiree", "sessionExpired")
    ELSE IF e.status = 404
      THEN Dialog("Lien invalide", "invalidLink")
      ELSE Dialog("Erreur", Coalesce(ExtractServerMessage(e), "loadFailed"))

\* the dialog the variant's acceptAndLoadPdfs() shows for a failed ACCEPT
\* call
AcceptErrorDialogVariant(e) ==
  Dialog("Erreur", Coalesce(ExtractServerMessage(e), "loadFailed"))

\* acceptAndLoadPdfs(): the ACCEPT call fails
AcceptFail(e) ==
  /\ initPc = "accept"
  /\ Fault(FALSE)
  /\ UNCHANGED << certVars, destroyed, build >>
  /\ swal' = IF build = "part_002" THEN AcceptErrorDialogVariant(e) ELSE AcceptErrorDialog(e)
  /\ isLoading' = FALSE
  /\ initPc' = "failed"
  /\ UNCHANGED << termsAccepted, signedSuccess, isSigning, invoices, currentPage,
                  signingProgress, loads, runs, acceptSessions >>

\* finally { if (objectUrl) URL.revokeObjectURL(objectUrl) }
Revoked(objectUrl) == IF objectUrl = "live" THEN "revoked" ELSE objectUrl

\* a load whose object URL is revoked at the end of the try block only
EndLoadRevokingInTry(ld) ==
  [ NewLoad EXCEPT !.pc = "done",
                   !.objectUrl = IF ld.numPages > 0 /\ Len(ld.pages) = ld.numPages
                                   THEN Revoked(ld.objectUrl) ELSE ld.objectUrl ]

\* a load that ended: the finally block has run and the locals are gone;
\* what is kept is whether an object URL was made and revoked
EndLoad(ld) == [ NewLoad EXCEPT !.pc = "done", !.objectUrl = Revoked(ld.objectUrl) ]

\* the catch block of loadInvoicePdf
FailedView(inv) == [ inv EXCEPT !.loading = FALSE, !.error = "loadError" ]

\* the end of the try block of loadInvoicePdf
LoadedView(inv, pages) == [ inv EXCEPT !.pages = pages, !.loading = FALSE ]

\* a batch load that resolves with the first load that ends
AfterLoadsAny(newLoads) ==
  IF \E k \in 1..Len(newLoads) : newLoads[k].pc = "done"
    THEN isLoading' = FALSE /\ initPc' = "done"
    ELSE UNCHANGED << isLoading, initPc >>

\* Promise.all of acceptAndLoadPdfs resolves with the last load, and its
\* finally block ends the loading
AfterLoads(newLoads) ==
  IF \A k \in 1..Len(newLoads) : newLoads[k].pc = "done"
    THEN isLoading' = FALSE /\ initPc' = "done"
    ELSE UNCHANGED << isLoading, initPc >>

\* loadInvoicePdf(idx) throws at its current await
LoadFail(idx) ==
  /\ initPc = "loading"
  /\ idx \in 1..Len(loads)
  /\ loads[idx].pc \in { "fetch", "open", "getPage", "render" }
  /\ Fault(TRUE)
  /\ UNCHANGED << certVars, destroyed, build >>
  /\ invoices' = [ invoices EXCEPT ![idx] = FailedView(@) ]
  /\ loads' = [ loads EXCEPT ![idx] = EndLoad(@) ]
  /\ AfterLoads(loads')
  /\ UNCHANGED << termsAccepted, signedSuccess, isSigning, currentPage,
                  signingProgress, swal, runs, acceptSessions >>

\* loadInvoicePdf(idx): the PDF bytes arrive, the object URL is created
LoadFetched(idx) ==
  /\ initPc = "loading"
  /\ idx \in 1..Len(loads)
  /\ loads[idx].pc = "fetch"
  /\ Fault(FALSE)
  /\ UNCHANGED << certVars, destroyed, build >>
  /\ loads' = [ loads EXCEPT ![idx] = [ @ EXCEPT !.pc = "open", !.objectUrl = "live" ] ]
  /\ UNCHANGED << initPc, isLoading, termsAccepted, signedSuccess, isSigning, invoices,
                  currentPage, signingProgress, swal, runs, acceptSessions >>

\* loadInvoicePdf(idx): pdf.js opened the document, which has n pages
LoadOpened(idx, n) ==
  /\ initPc = "loading"
  /\ idx \in 1..Len(loads)
  /\ loads[idx].pc = "open"
  /\ Fault(FALSE)
  /\ UNCHANGED << certVars, destroyed, build >>
  /\ loads' = [ loads EXCEPT ![idx] = [ @ EXCEPT !.pc = "getPage", !.numPages = n, !.i = 1 ] ]
  /\ UNCHANGED << initPc, isLoading, termsAccepted, signedSuccess, isSigning, invoices,
                  currentPage, signingProgress, swal, runs, acceptSessions >>

\* loadInvoicePdf(idx): page i arrives; without a canvas context the code
\* throws, with one it awaits the rendering
LoadGotPage(idx, hasCtx) ==
  /\ initPc = "loading"
  /\ idx \in 1..Len(loads)
  /\ loads[idx].pc = "getPage"
  /\ Fault(~hasCtx)
  /\ UNCHANGED << certVars, destroyed, build >>
  /\ IF hasCtx
       THEN /\ loads' = [ loads EXCEPT ![idx] = [ @ EXCEPT !.pc = "render" ] ]
            /\ UNCHANGED << invoices, isLoading, initPc >>
       ELSE /\ invoices' = [ invoices EXCEPT ![idx] = FailedView(@) ]
            /\ loads' = [ loads EXCEPT ![idx] = EndLoad(@) ]
            /\ AfterLoads(loads')
  /\ UNCHANGED << termsAccepted, signedSuccess, isSigning, currentPage,
                  signingProgress, swal, runs, acceptSessions >>

\* loadInvoicePdf(idx): page i is rendered and pushed; the loop goes on to
\* the next page or the load ends
LoadRendered(idx) ==
  /\ initPc = "loading"
  /\ idx \in 1..Len(loads)
  /\ loads[idx].pc = "render"
  /\ Fault(FALSE)
  /\ UNCHANGED << certVars, destroyed, build >>
  /\ LET ld    == loads[idx]
         pages == Append(ld.pages, [ pageNumber |-> ld.i, totalPages |-> ld.numPages ])
     IN IF ld.i + 1 <= ld.numPages
          THEN /\ loads' = [ loads EXCEPT ![idx] =
                               [ @ EXCEPT !.pc = "getPage", !.pages = pages, !.i = ld.i + 1 ] ]
               /\ UNCHANGED << invoices, isLoading, initPc >>
          ELSE /\ invoices' = [ invoices EXCEPT ![idx] = LoadedView(@, pages) ]
               /\ loads' = [ loads EXCEPT ![idx] =
                               EndLoad([ @ EXCEPT !.pages = pages, !.i = ld.i + 1 ]) ]
               /\ AfterLoads(loads')
  /\ UNCHANGED << termsAccepted, signedSuccess, isSigning, currentPage,
                  signingProgress, swal, runs, acceptSessions >>

\* ------------------------------------------------- the certificate choice
\* the values the template's selector gives to selectedCert
CertTypes == { "digigo", "other" }

\* a non-empty array answered by GET /api/certificates
CertificateList ==
  << CHOOSE c \in Certs : c.alias = "alias1", CHOOSE c \in Certs : c.alias = "alias2" >>

\* onCertChange(), the selector having set selectedCert to sel
OnCertChange(sel) ==
  /\ ~destroyed
  /\ sel = "digigo" => certLoads < MaxCertLoads
  /\ selectedCert' = sel
  /\ expandedCertIndex' = << >>
  /\ certificates' = << >>
  /\ certLoads' = IF sel = "digigo" THEN certLoads + 1 ELSE certLoads
  /\ UNCHANGED << initPc, isLoading, termsAccepted, signedSuccess, isSigning, invoices,
                  currentPage, signingProgress, swal, loads, runs, acceptSessions, faults,
                  destroyed, build >>

\* loadCertificates: !res || res.success === false
NoCertificateAnswer(res) == res = NULL \/ res = "failure"

\* loadCertificates(): GET /api/certificates answers with a body
LoadCertificatesRespond(ans) ==
  /\ certLoads > 0
  /\ ans.ok
  /\ certLoads' = certLoads - 1
  /\ IF NoCertificateAnswer(ans.res)
       THEN /\ certificates' = << >>
            /\ swal' = Dialog("Aucun certificat", "noValidCertificate")
       ELSE /\ certificates' = IF ans.res = "list" THEN CertificateList ELSE << >>
            /\ swal' = swal
  /\ UNCHANGED << initPc, isLoading, termsAccepted, signedSuccess, isSigning, invoices,
                  currentPage, signingProgress, loads, runs, acceptSessions, faults,
                  selectedCert, expandedCertIndex, destroyed, build >>

\* loadCertificates(): GET /api/certificates fails
LoadCertificatesFail(ans) ==
  /\ certLoads > 0
  /\ ~ans.ok
  /\ certLoads' = certLoads - 1
  /\ certificates' = << >>
  /\ swal' = IF ans.status = 0
               THEN Dialog("Agent PROSign non detecte", "startAgent")
               ELSE Dialog("Cle USB non detectee", "insertKey")
  /\ UNCHANGED << initPc, isLoading, termsAccepted, signedSuccess, isSigning, invoices,
                  currentPage, signingProgress, loads, runs, acceptSessions, faults,
                  selectedCert, expandedCertIndex, destroyed, build >>

\* ----------------------------------------------------------- signWithCert
\* the template's terms checkbox, bound to termsAccepted
SetTerms(b) ==
  /\ ~destroyed
  /\ termsAccepted # b
  /\ Fault(FALSE)
  /\ UNCHANGED << certVars, destroyed, build >>
  /\ termsAccepted' = b
  /\ UNCHANGED << initPc, isLoading, signedSuccess, isSigning, invoices, currentPage,
                  signingProgress, swal, loads, runs, acceptSessions >>

\* an entry of a run's log: a request sent or an answer received for the
\* invoice at index inv (0-based, as the loop counts)
Event(kind, inv, body) == [ kind |-> kind, inv |-> inv, body |-> body ]

\* the number of log entries of one kind
RECURSIVE CountKind(_, _)
CountKind(log, kind) ==
  IF log = << >> THEN 0
  ELSE (IF Head(log).kind = kind THEN 1 ELSE 0) + CountKind(Tail(log), kind)

\* the PREPARE requests issued so far by all runs
RECURSIVE NumPrepares(_)
NumPrepares(rs) ==
  IF rs = << >> THEN 0 ELSE CountKind(Head(rs).log, "PREPARE") + NumPrepares(Tail(rs))

\* the body of the request a run sent last
LastRequest(run) == run.log[Len(run.log)].body

\* a PREPARE body built from the first certificate listed at that moment
PreparePayloadListed(session, cert) ==
  LET c == IF certificates = << >> THEN cert ELSE certificates[1]
  IN [ alias |-> c.alias, signingSessionId |-> session.signingSessionId,
       serialNumber |-> c.serialNumber ]

\* the body of the PREPARE request
PreparePayload(session, cert) ==
  [ alias |-> cert.alias, signingSessionId |-> session.signingSessionId,
    serialNumber |-> cert.serialNumber ]

\* the variant's body of the PREPARE request
PreparePayloadVariant(session, cert) ==
  [ alias |-> cert.alias, token |-> session.signingSessionId,
    serialNumber |-> cert.serialNumber ]

\* an agent sign request that takes the digest stored for the first invoice
AgentPayloadOfFirst(digest, cert) ==
  [ digest |-> IF invoices[1].prepareResp = << >> THEN digest
               ELSE invoices[1].prepareResp[1].digest,
    algorithm |-> cert.algorithm, alias |-> cert.alias ]

\* the body of the agent sign request
AgentPayload(digest, cert) ==
  [ digest |-> digest, algorithm |-> cert.algorithm, alias |-> cert.alias ]

\* the body of the COMPLETE request
CompletePayload(session, agentResp, cert) ==
  [ signingSessionId |-> session.signingSessionId,
    signatureValue |-> agentResp.signatureValue,
    certificate |-> agentResp.certificate,
    algorithm |-> cert.algorithm ]

\* the guard without its isSigning test
SignBlockedNoSigning == Len(invoices) = 0

\* the guard without its test of the invoice list
SignBlockedNoLength == isSigning

\* the guard of signWithCert after the terms check
SignBlocked == isSigning \/ Len(invoices) = 0

\* the locals of a signWithCert invocation at its first await, the
\* readiness check
\* (log and destroyedAt are history: the requests and answers so far, and
\* the number of the invoice the loop worked on when ngOnDestroy ran, else 0)
NewRun(cert) ==
  [ pc |-> "verify", cert |-> cert, total |-> Len(invoices), failed |-> << >>, i |-> 0,
    prepareResp |-> << >>, agentResp |-> << >>, summary |-> << >>,
    log |-> << Event("VERIFY", 0, [ none |-> TRUE ]) >>, destroyedAt |-> 0 ]

\* a signWithCert without the terms check
TermsRefusedNever == FALSE

\* if (!this.termsAccepted)
TermsRefused == ~termsAccepted

\* signWithCert(cert) up to its first await
SignWithCert(cert) ==
  IF TermsRefused
    THEN /\ swal' = Dialog("Attention", "acceptTerms")
         /\ UNCHANGED << initPc, isLoading, termsAccepted, signedSuccess, isSigning,
                         invoices, currentPage, signingProgress, loads, runs,
                         acceptSessions, faults, certVars, destroyed, build >>
    ELSE IF SignBlocked
      THEN UNCHANGED vars
      ELSE /\ Len(runs) < MaxRuns
           /\ NumPrepares(runs) + Len(invoices) <= MaxPrepares
           /\ isSigning' = TRUE
           /\ swal' = Dialog("Traitement en cours", "Verification du certificat")
           /\ runs' = Append(runs, NewRun(cert))
           /\ UNCHANGED << initPc, isLoading, termsAccepted, signedSuccess, invoices,
                           currentPage, signingProgress, loads, acceptSessions, faults,
                           certVars, destroyed, build >>

\* the user presses the sign button of a certificate; the page offers it
\* once the batch has been loaded, as long as the component lives
SignClick(cert) == ~isLoading /\ ~destroyed /\ SignWithCert(cert)

\* what a segment of signWithCert reads and writes: the component's fields
\* and the invocation's locals
World(r) ==
  [ invoices |-> invoices, currentPage |-> currentPage,
    signingProgress |-> signingProgress, swal |-> swal,
    isSigning |-> isSigning, signedSuccess |-> signedSuccess, run |-> runs[r] ]

\* the state after a segment of invocation r
Apply(r, w) ==
  /\ invoices' = w.invoices
  /\ currentPage' = w.currentPage
  /\ signingProgress' = w.signingProgress
  /\ swal' = w.swal
  /\ isSigning' = w.isSigning
  /\ signedSuccess' = w.signedSuccess
  /\ runs' = [ runs EXCEPT ![r] = w.run ]
  /\ UNCHANGED << initPc, isLoading, termsAccepted, loads, acceptSessions >>

\* Swal.update({ text }): changes the text of the dialog on screen
UpdateLoading(sw, text) == IF sw.title = "none" THEN sw ELSE [ sw EXCEPT !.text = text ]

\* a finally block that leaves isSigning as it is
FinallyKeepsSigning(w) == [ w EXCEPT !.signingProgress = << >>, !.run.pc = "done" ]

\* the finally block of signWithCert
Finally(w) ==
  [ w EXCEPT !.isSigning = FALSE, !.signingProgress = << >>, !.run.pc = "done" ]

\* a summary that counts every invoice as signed
SummaryOfCountsAll(total, failed) ==
  IF Len(failed) = 0
    THEN [ kind |-> "success", signedCount |-> total, total |-> total, failed |-> failed ]
    ELSE [ kind |-> "partial", signedCount |-> total, total |-> total, failed |-> failed ]

\* the dialog after the loop: all signed, or the partial summary
SummaryOf(total, failed) ==
  IF Len(failed) = 0
    THEN [ kind |-> "success", signedCount |-> total, total |-> total, failed |-> failed ]
    ELSE [ kind |-> "partial", signedCount |-> total - Len(failed), total |-> total,
           failed |-> failed ]

\* after the loop: Swal.close(), the progress is cleared, the summary dialog
\* is fired and awaited
AfterLoop(w) ==
  LET sum == SummaryOf(w.run.total, w.run.failed)
  IN [ w EXCEPT !.signingProgress = << >>,
                !.swal = Dialog(sum.kind, "summary"),
                !.run.pc = "summary",
                !.run.summary = << sum >>,
                !.run.log = Append(@, Event("SUMMARY", w.run.i, sum)) ]

\* the top of the loop body for index i, up to the await of prepareSign
Iteration(w, i) ==
  LET inv == w.invoices[i + 1]
  IN [ w EXCEPT !.currentPage = i,
                !.signingProgress =
                   << [ current |-> i + 1, total |-> w.run.total,
                        docId |-> inv.session.documentIdentifier,
                        invoiceId |-> inv.session.invoiceId ] >>,
                !.swal = UpdateLoading(@, "Preparation"),
                !.run.i = i,
                !.run.pc = "prepare",
                !.run.prepareResp = << >>,
                !.run.agentResp = << >>,
                !.run.log = Append(@, Event("PREPARE", i,
                                IF build = "part_002"
                                  THEN PreparePayloadVariant(inv.session, w.run.cert)
                                  ELSE PreparePayload(inv.session, w.run.cert))) ]

\* a loop that starts one index too far
LoopFromOffByOne(w, i) ==
  IF i + 1 < Len(w.invoices) THEN Iteration(w, i + 1) ELSE AfterLoop(w)

\* a loop that ends when the component is destroyed
LoopFromUntilDestroyed(w, i) ==
  IF i < Len(w.invoices) /\ ~destroyed THEN Iteration(w, i) ELSE AfterLoop(w)

\* for (let i = ...; i < this.invoices.length; i++): the loop test at index
\* i, then the body or the code after the loop
LoopFrom(w, i) ==
  IF i < Len(w.invoices) THEN Iteration(w, i) ELSE AfterLoop(w)

\* a catch block that leaves the loop
CatchInvoiceAbort(w, message) ==
  LET i   == w.run.i
      inv == w.invoices[i + 1]
  IN AfterLoop([ w EXCEPT !.run.failed = Append(@, Label(inv.session)),
                         !.invoices[i + 1].error = message ])

\* a catch block that stores the error but does not record the failure
CatchInvoiceForgetting(w, message) ==
  LET i == w.run.i
  IN LoopFrom([ w EXCEPT !.invoices[i + 1].error = message ], i + 1)

\* a loop body that marks the invoice signed on its way out, failed or not
CatchInvoiceMarkingSigned(w, message) ==
  LET i   == w.run.i
      inv == w.invoices[i + 1]
  IN LoopFrom([ w EXCEPT !.run.failed = Append(@, Label(inv.session)),
                         !.invoices[i + 1].error = message,
                         !.invoices[i + 1].signed = TRUE ],
              i + 1)

\* a catch block that shows each failure in a dialog of its own
CatchInvoiceShowingError(w, message) ==
  LET i   == w.run.i
      inv == w.invoices[i + 1]
  IN LoopFrom([ w EXCEPT !.run.failed = Append(@, Label(inv.session)),
                         !.invoices[i + 1].error = message,
                         !.swal = Dialog("Erreur", message) ],
              i + 1)

\* the catch block of the loop body, then the next round of the loop
CatchInvoice(w, message) ==
  LET i   == w.run.i
      inv == w.invoices[i + 1]
  IN LoopFrom([ w EXCEPT !.run.failed = Append(@, Label(inv.session)),
                         !.invoices[i + 1].error = message ],
              i + 1)

\* a readiness check without the test of the length
VerifyAgentAndCertificateNoLength(ans) ==
  IF ans.ok
    THEN ~(ans.res = NULL \/ ans.res = "failure")
    ELSE FALSE

\* AuthPdf.verifyAgentAndCertificate(): the boolean it resolves to for an
\* answer of GET /api/certificates
VerifyAgentAndCertificate(ans) ==
  IF ans.ok
    THEN ~(ans.res = NULL \/ ans.res = "failure" \/ ans.res = "empty")
    ELSE FALSE

\* AuthPdf.verifyAgentAndCertificate(): the dialog it fires, if any
VerifyDialog(ans, sw) ==
  IF ans.ok
    THEN IF VerifyAgentAndCertificate(ans) THEN sw
         ELSE Dialog("Cle USB non detectee", "noCertificate")
    ELSE IF ans.status = 0
      THEN Dialog("Agent PROSign non detecte", "startAgent")
      ELSE Dialog("Cle USB non detectee", "noCertificate")

\* a readiness check whose result is not looked at
AfterVerifyNoReturn(w, isValid) == LoopFrom(w, 0)

\* a false readiness check after which isSigning is reset and the dialog
\* closed, but the invocation goes on
AfterVerifyResetNoReturn(w, isValid) ==
  IF ~isValid
    THEN LoopFrom([ w EXCEPT !.isSigning = FALSE, !.swal = NoSwal ], 0)
    ELSE LoopFrom(w, 0)

\* signWithCert after the readiness check: on false isSigning is reset, the
\* dialog closed and the run given up; on true the loop starts
AfterVerify(w, isValid) ==
  IF ~isValid
    THEN Finally([ w EXCEPT !.isSigning = FALSE, !.swal = NoSwal ])
    ELSE LoopFrom(w, 0)

\* signWithCert: the readiness check answers
VerifyRespond(r, ans) ==
  /\ r \in 1..Len(runs)
  /\ runs[r].pc = "verify"
  /\ Fault(~VerifyAgentAndCertificate(ans))
  /\ UNCHANGED << certVars, destroyed, build >>
  /\ LET w0 == [ World(r) EXCEPT !.swal = VerifyDialog(ans, @),
                                 !.run.log = Append(@, Event("verified", 0,
                                               [ isValid |-> VerifyAgentAndCertificate(ans),
                                                 answer |-> ans ])) ]
     IN Apply(r, AfterVerify(w0, VerifyAgentAndCertificate(ans)))

\* prepareSign: the message of the Error it throws when the call fails
PrepareErrorMessage(e) == Coalesce(ExtractServerMessage(e), "prepareFailed")

\* storing the PREPARE response over the session token as well
StorePrepareOverwriting(inv, resp) ==
  [ inv EXCEPT !.prepareResp = << resp >>,
               !.session.signingSessionId = resp.signingSessionId ]

\* inv.prepareResp = prepareResp
StorePrepare(inv, resp) == [ inv EXCEPT !.prepareResp = << resp >> ]

\* inv.agentResp = agentResp
StoreAgent(inv, resp) == [ inv EXCEPT !.agentResp = << resp >> ]

\* a call of completeSign that hands it the token of the PREPARE response
CallCompleteSignPrepareToken(inv, agentResp, cert) ==
  CompletePayload([ inv.session EXCEPT
                      !.signingSessionId = inv.prepareResp[1].signingSessionId ],
                  agentResp, cert)

\* this.completeSign(inv.session, agentResp, cert): the body of the COMPLETE
\* request the loop sends for an invoice
CallCompleteSign(inv, agentResp, cert) == CompletePayload(inv.session, agentResp, cert)

\* a prepareSign that takes every response body
HasDigestUnchecked(resp) == TRUE

\* prepareSign: response?.digest is truthy
HasDigest(resp) == Truthy(resp.digest)

\* the variant's this.completeSign(inv.session, prepareResp, agentResp, cert):
\* the body of the COMPLETE request takes its token from the PREPARE response
CallCompleteSignVariant(inv, prepareResp, agentResp, cert) ==
  [ signingSessionId |-> prepareResp.signingSessionId,
    signatureValue |-> agentResp.signatureValue,
    certificate |-> agentResp.certificate,
    algorithm |-> cert.algorithm ]

\* prepareSign: the PREPARE call answers with a body.  Without a digest
\* prepareSign throws; with one the body is stored and the agent is called.
PrepareRespond(r, resp) ==
  /\ r \in 1..Len(runs)
  /\ runs[r].pc = "prepare"
  /\ Fault(~HasDigest(resp))
  /\ UNCHANGED << certVars, destroyed, build >>
  /\ LET w0 == [ World(r) EXCEPT !.run.log = Append(@, Event("prepared", runs[r].i, resp)) ]
         i  == runs[r].i
     IN IF ~HasDigest(resp)
          THEN Apply(r, CatchInvoice(w0, "digestAbsent"))
          ELSE Apply(r, [ w0 EXCEPT
                 !.invoices[i + 1] = IF build = "part_002" THEN @ ELSE StorePrepare(@, resp),
                 !.run.prepareResp = << resp >>,
                 !.swal = UpdateLoading(@, "Signature locale"),
                 !.run.pc = "agent",
                 !.run.log = Append(@, Event("AGENT", i,
                                             AgentPayload(resp.digest, w0.run.cert))) ])

\* prepareSign: the PREPARE call fails
PrepareFail(r, e) ==
  /\ r \in 1..Len(runs)
  /\ runs[r].pc = "prepare"
  /\ Fault(TRUE)
  /\ UNCHANGED << certVars, destroyed, build >>
  /\ LET w0 == [ World(r) EXCEPT !.run.log = Append(@, Event("prepareFailed", runs[r].i, e)) ]
     IN Apply(r, CatchInvoice(w0, PrepareErrorMessage(e)))

\* signViaAgent: the check of the agent's answer
AgentResponseValid(resp) == Truthy(resp.signatureValue) /\ Truthy(resp.certificate)

\* signViaAgent: the agent answers with a body.  An invalid body makes
\* signViaAgent throw; a valid one is stored and COMPLETE is called.
AgentRespond(r, resp) ==
  /\ r \in 1..Len(runs)
  /\ runs[r].pc = "agent"
  /\ resp \in AgentResponses(LastRequest(runs[r]))
  /\ Fault(~AgentResponseValid(resp))
  /\ UNCHANGED << certVars, destroyed, build >>
  /\ LET w0 == [ World(r) EXCEPT !.run.log = Append(@, Event("agentSigned", runs[r].i, resp)) ]
         i  == runs[r].i
     IN IF ~AgentResponseValid(resp)
          THEN Apply(r, CatchInvoice(w0, "agentInvalid"))
          ELSE Apply(r, [ w0 EXCEPT
                 !.invoices[i + 1] = IF build = "part_002" THEN @ ELSE StoreAgent(@, resp),
                 !.run.agentResp = << resp >>,
                 !.swal = UpdateLoading(@, "Finalisation"),
                 !.run.pc = "complete",
                 !.run.log = Append(@, Event("COMPLETE", i,
                        IF build = "part_002"
                          THEN CallCompleteSignVariant(w0.invoices[i + 1],
                                 w0.run.prepareResp[1], resp, w0.run.cert)
                          ELSE CallCompleteSign(StoreAgent(w0.invoices[i + 1], resp), resp,
                                                w0.run.cert))) ])

\* a signViaAgent that reports every failed call alike
AgentErrorMessageAlike(e) == "agentFailed"

\* signViaAgent: the message of the Error it throws when the call fails
AgentErrorMessage(e) == IF e.status = 0 THEN "agentUnreachable" ELSE "agentFailed"

\* signViaAgent: the agent call fails
AgentFail(r, e) ==
  /\ r \in 1..Len(runs)
  /\ runs[r].pc = "agent"
  /\ Fault(TRUE)
  /\ UNCHANGED << certVars, destroyed, build >>
  /\ LET w0 == [ World(r) EXCEPT !.run.log = Append(@, Event("agentFailed", runs[r].i, e)) ]
     IN Apply(r, CatchInvoice(w0, AgentErrorMessage(e)))

\* signWithCert: completeSign returned, the invoice is signed and the loop
\* goes on
CompleteRespond(r) ==
  /\ r \in 1..Len(runs)
  /\ runs[r].pc = "complete"
  /\ Fault(FALSE)
  /\ UNCHANGED << certVars, destroyed, build >>
  /\ LET i  == runs[r].i
         w0 == [ World(r) EXCEPT
                   !.run.log = Append(@, Event("completed", i, [ none |-> TRUE ])),
                   !.invoices[i + 1].signed = TRUE ]
     IN Apply(r, LoopFrom(w0, i + 1))

\* completeSign: the message of the Error it throws when the call fails
CompleteErrorMessage(e) == Coalesce(ExtractServerMessage(e), "completeFailed")

\* completeSign: the COMPLETE call fails
CompleteFail(r, e) ==
  /\ r \in 1..Len(runs)
  /\ runs[r].pc = "complete"
  /\ Fault(TRUE)
  /\ UNCHANGED << certVars, destroyed, build >>
  /\ LET w0 == [ World(r) EXCEPT !.run.log = Append(@, Event("completeFailed", runs[r].i, e)) ]
     IN Apply(r, CatchInvoice(w0, CompleteErrorMessage(e)))

\* signWithCert: the summary dialog is closed; signedSuccess is set when
\* nothing failed, then the finally block runs
SummaryResolve(r) ==
  /\ r \in 1..Len(runs)
  /\ runs[r].pc = "summary"
  /\ Fault(FALSE)
  /\ UNCHANGED << certVars, destroyed, build >>
  /\ LET w0 == World(r)
     IN Apply(r, Finally([ w0 EXCEPT
            !.swal = IF @ = Dialog(w0.run.summary[1].kind, "summary") THEN NoSwal ELSE @,
            !.signedSuccess = IF Len(w0.run.failed) = 0 THEN TRUE ELSE @ ]))

\* signWithCert: the awaited summary dialog rejects; the outer catch block
\* fires the error dialog, then the finally block runs
SummaryReject(r) ==
  /\ r \in 1..Len(runs)
  /\ runs[r].pc = "summary"
  /\ Fault(TRUE)
  /\ UNCHANGED << certVars, destroyed, build >>
  /\ Apply(r, Finally([ World(r) EXCEPT
         !.swal = Dialog("Erreur de signature", "fatal"),
         !.run.log = Append(@, Event("fatal", runs[r].i, [ none |-> TRUE ])) ]))

\* ------------------------------------------------------------ ngOnDestroy
\* the EmptyError firstValueFrom rejects with when takeUntil(destroy$)
\* completes the call before it answered; it has no status (-1 here)
EmptyError == [ status |-> -1, errMsg |-> NULL, message |-> "no elements in sequence" ]

\* ngOnDestroy(): destroy$ emits.  The calls piped through
\* takeUntil(destroy$), the ACCEPT call and the PDF fetches, end without a
\* value, their awaits reject and the catch and finally blocks run.  The calls
\* of signWithCert are not piped through it and stay as they are.
NgOnDestroy ==
  /\ ~destroyed
  /\ initPc # "new"
  /\ destroyed' = TRUE
  /\ IF initPc = "accept"
       THEN /\ swal' = IF build = "part_002" THEN AcceptErrorDialogVariant(EmptyError)
                                              ELSE AcceptErrorDialog(EmptyError)
            /\ isLoading' = FALSE
            /\ initPc' = "failed"
            /\ UNCHANGED << invoices, loads >>
       ELSE IF initPc = "loading"
         THEN /\ invoices' = [ k \in 1..Len(invoices) |->
                                IF loads[k].pc = "fetch" THEN FailedView(invoices[k])
                                                         ELSE invoices[k] ]
              /\ loads' = [ k \in 1..Len(loads) |->
                             IF loads[k].pc = "fetch" THEN EndLoad(loads[k]) ELSE loads[k] ]
              /\ AfterLoads(loads')
              /\ swal' = swal
         ELSE UNCHANGED << swal, isLoading, initPc, invoices, loads >>
  /\ runs' = [ r \in 1..Len(runs) |->
                IF runs[r].pc = "done" THEN runs[r]
                ELSE [ runs[r] EXCEPT !.destroyedAt =
                         IF runs[r].pc \in { "prepare", "agent", "complete" }
                           THEN runs[r].i + 1 ELSE 0 ] ]
  /\ UNCHANGED << termsAccepted, signedSuccess, isSigning, currentPage, signingProgress,
                  acceptSessions, faults, certVars, build >>

\* ------------------------------------------------------------- pagination
\* goToPage(index), called by the user at any moment
GoToPage(index) ==
  /\ ~destroyed
  /\ Fault(FALSE)
  /\ UNCHANGED << certVars, destroyed, build >>
  /\ currentPage' = IF index >= 0 /\ index < Len(invoices) THEN index ELSE currentPage
  /\ UNCHANGED << initPc, isLoading, termsAccepted, signedSuccess, isSigning, invoices,
                  signingProgress, swal, loads, runs, acceptSessions >>

\* prevPage()
PrevPage == GoToPage(currentPage - 1)

\* nextPage()
NextPage == GoToPage(currentPage + 1)

\* ---------------------------------------------------------- specification
NextWith(certs, pageCounts) ==
  \/ \E id \in { "", "doc1" } : NgOnInit(id)
  \/ \E resp \in AcceptResponses : AcceptRespond(resp)
  \/ \E e \in HttpErrors : AcceptFail(e)
  \/ \E idx \in 1..MaxInvoices : LoadFail(idx)
  \/ \E idx \in 1..MaxInvoices : LoadFetched(idx)
  \/ \E idx \in 1..MaxInvoices, n \in pageCounts : LoadOpened(idx, n)
  \/ \E idx \in 1..MaxInvoices, hasCtx \in BOOLEAN : LoadGotPage(idx, hasCtx)
  \/ \E idx \in 1..MaxInvoices : LoadRendered(idx)
  \/ \E b \in BOOLEAN : SetTerms(b)
  \/ \E cert \in certs : SignClick(cert)
  \/ \E r \in 1..MaxRuns, ans \in CertListAnswers : VerifyRespond(r, ans)
  \/ \E r \in 1..MaxRuns, resp \in PrepareResponses : PrepareRespond(r, resp)
  \/ \E r \in 1..MaxRuns, e \in CallErrors : PrepareFail(r, e)
  \/ \E r \in 1..Len(runs) :
        /\ runs[r].pc = "agent"
        /\ \E resp \in AgentResponses(LastRequest(runs[r])) : AgentRespond(r, resp)
  \/ \E r \in 1..MaxRuns, e \in CallErrors : AgentFail(r, e)
  \/ \E r \in 1..MaxRuns : CompleteRespond(r)
  \/ \E r \in 1..MaxRuns, e \in CallErrors : CompleteFail(r, e)
  \/ \E r \in 1..MaxRuns : SummaryResolve(r)
  \/ \E r \in 1..MaxRuns : SummaryReject(r)

\* the steps of the component, the user choosing among all certificates and
\* every PDF having two pages
Next == NextWith(Certs, { 2 })

Spec == Init /\ [][Next]_vars

\* the steps of the component, the user signing with one certificate
NextOneCert == NextWith({ c \in Certs : c.alias = "alias1" }, { 2 })

\* an awaited call of a signing run is answered
RunAnswer ==
  \/ \E r \in 1..MaxRuns, ans \in CertListAnswers : VerifyRespond(r, ans)
  \/ \E r \in 1..MaxRuns, resp \in PrepareResponses : PrepareRespond(r, resp)
  \/ \E r \in 1..MaxRuns, e \in CallErrors : PrepareFail(r, e)
  \/ \E r \in 1..Len(runs) :
        /\ runs[r].pc = "agent"
        /\ \E resp \in AgentResponses(LastRequest(runs[r])) : AgentRespond(r, resp)
  \/ \E r \in 1..MaxRuns, e \in CallErrors : AgentFail(r, e)
  \/ \E r \in 1..MaxRuns : CompleteRespond(r)
  \/ \E r \in 1..MaxRuns, e \in CallErrors : CompleteFail(r, e)
  \/ \E r \in 1..MaxRuns : SummaryResolve(r)
  \/ \E r \in 1..MaxRuns : SummaryReject(r)

\* the behaviours in which every awaited call of a signing run is answered
LiveSpec == Init /\ [][NextOneCert]_vars /\ WF_vars(RunAnswer)

\* the steps of the page while the user chooses the certificate type: the
\* ACCEPT call, the terms and the certificate listing
NextCert ==
  \/ \E id \in { "", "doc1" } : NgOnInit(id)
  \/ \E resp \in AcceptResponses : AcceptRespond(resp)
  \/ \E e \in HttpErrors : AcceptFail(e)
  \/ \E b \in BOOLEAN : SetTerms(b)
  \/ \E sel \in CertTypes : OnCertChange(sel)
  \/ \E ans \in CertListAnswers : LoadCertificatesRespond(ans)
  \/ \E ans \in CertListAnswers : LoadCertificatesFail(ans)

CertSpec == Init /\ [][NextCert]_vars

\* the steps of the component when it can be destroyed at any moment after
\* ngOnInit: the user signs with one certificate and does not withdraw the
\* terms once accepted, and every PDF has one page
NextDestroy ==
  \/ NgOnDestroy
  \/ /\ NextWith({ c \in Certs : c.alias = "alias1" }, { 1 })
     /\ termsAccepted => termsAccepted'

\* the behaviours with ngOnDestroy in which every awaited call of a signing
\* run is answered
LiveDestroySpec == Init /\ [][NextDestroy]_vars /\ WF_vars(RunAnswer)

\* the component built from the variant source
VariantSpec == InitOf("part_002") /\ [][Next]_vars

\* the steps of the component with the user paging through the invoices at
\* any moment; the user signs with one certificate
NextNav ==
  \/ NextOneCert
  \/ \E index \in -1..MaxInvoices : GoToPage(index)
  \/ PrevPage
  \/ NextPage

NavSpec == Init /\ [][NextNav]_vars

\* signWithCert called while PDF loads of the batch are still pending
SignEarly(cert) == isLoading /\ ~destroyed /\ SignWithCert(cert)

\* the steps of the component when the user may sign before the batch load
\* has ended; the user signs with one certificate and every PDF has one page
NextEarly ==
  \/ NextWith({ c \in Certs : c.alias = "alias1" }, { 1 })
  \/ \E cert \in { c \in Certs : c.alias = "alias1" } : SignEarly(cert)

EarlySpec == Init /\ [][NextEarly]_vars

\* the certificates the template lists, each with its sign button
ListedCerts == { certificates[k] : k \in 1..Len(certificates) }

\* the steps of the component with the certificate choice: the user signs
\* with a listed certificate and may change the selection at any moment,
\* also during a run; no answer fails, the terms stay accepted and every
\* PDF has one page
NextChoice ==
  \/ /\ NextWith(ListedCerts, { 1 })
     /\ faults' = faults
     /\ termsAccepted => termsAccepted'
  \/ \E sel \in CertTypes : OnCertChange(sel)
  \/ \E ans \in CertListAnswers : LoadCertificatesRespond(ans)
  \/ \E ans \in CertListAnswers : LoadCertificatesFail(ans)

ChoiceSpec == Init /\ [][NextChoice]_vars

\* a PREPARE response body with another digest
PrepareResponseB == [ signingSessionId |-> 99, sessionId |-> 98, digest |-> "dgB" ]

\* the steps of the component when the server answers PREPARE with one of two
\* digests; the user signs with one certificate and every PDF has one page
NextChain ==
  \/ NextWith({ c \in Certs : c.alias = "alias1" }, { 1 })
  \/ \E r \in 1..MaxRuns : PrepareRespond(r, PrepareResponseB)

ChainSpec == Init /\ [][NextChain]_vars

\* ------------------------------------------------------------ properties
\* an answer that makes the loop body throw
FailureEvent(ev) ==
  \/ ev.kind \in { "prepareFailed", "agentFailed", "completeFailed" }
  \/ ev.kind = "prepared" /\ ~Truthy(ev.body.digest)
  \/ ev.kind = "agentSigned" /\ ~AgentResponseValid(ev.body)

\* the three calls of invoice index i succeeded in the run of this log
SucceededIn(log, i) ==
  \E k \in 1..Len(log) : log[k].kind = "completed" /\ log[k].inv = i

\* a step of invoice index i failed in the run of this log
FailedIn(log, i) ==
  \E k \in 1..Len(log) : FailureEvent(log[k]) /\ log[k].inv = i

\* the token ACCEPT returned for invoice index i
AcceptToken(i) == acceptSessions[i + 1].signingSessionId

\* the readiness check of this run returned false
RejectedRun(run) ==
  \E k \in 1..Len(run.log) : run.log[k].kind = "verified" /\ ~run.log[k].body.isValid

\* C1: every COMPLETE request carries the signingSessionId that ACCEPT
\* returned for its invoice, whatever the PREPARE response carried.
C1_CompleteTokenFromAccept ==
  \A r \in 1..Len(runs) : \A k \in 1..Len(runs[r].log) :
    LET ev == runs[r].log[k]
    IN ev.kind = "COMPLETE" => ev.body.signingSessionId = AcceptToken(ev.inv)

\* a COMPLETE request was sent for an invoice whose PREPARE response carried
\* another signingSessionId than ACCEPT's
C1_Witness ==
  \E r \in 1..Len(runs) : \E j, k \in 1..Len(runs[r].log) :
    LET log == runs[r].log
    IN /\ j < k
       /\ log[j].kind = "prepared" /\ log[k].kind = "COMPLETE"
       /\ log[j].inv = log[k].inv
       /\ log[j].body.signingSessionId # AcceptToken(log[k].inv)
       /\ log[j].body.sessionId # AcceptToken(log[k].inv)

\* C2: in every run the n-th PREPARE is the one of the n-th invoice of the
\* ACCEPT response, and it is sent only after the previous invoice's sequence
\* resolved: its COMPLETE was answered or one of its steps failed.
C2_SequentialInOrder ==
  \A r \in 1..Len(runs) : \A k \in 1..Len(runs[r].log) :
    LET log == runs[r].log
        i   == log[k].inv
    IN log[k].kind = "PREPARE" =>
         /\ i = CountKind(SubSeq(log, 1, k - 1), "PREPARE")
         /\ log[k].body.signingSessionId = AcceptToken(i)
         /\ i > 0 => \E j \in 1..(k - 1) :
                       /\ log[j].inv = i - 1
                       /\ log[j].kind = "completed" \/ FailureEvent(log[j])

\* a run sent the PREPARE of a third invoice after a failed first and a
\* completed second one
C2_Witness ==
  \E r \in 1..Len(runs) :
    /\ CountKind(runs[r].log, "PREPARE") = 3
    /\ FailedIn(runs[r].log, 0)
    /\ SucceededIn(runs[r].log, 1)

\* C3: a failure of one invoice does not end the run: at the summary every
\* invoice was driven to its end, every invoice whose three calls succeeded
\* is signed, and with 3 invoices of which only the second failed the summary
\* counts 2 signed and lists exactly the second invoice's label.
C3_FailureIsolation ==
  \A r \in 1..Len(runs) :
    runs[r].summary # << >> =>
      LET log == runs[r].log
          sum == runs[r].summary[1]
      IN /\ \A i \in 0..(Len(invoices) - 1) : SucceededIn(log, i) \/ FailedIn(log, i)
         /\ \A i \in 0..(Len(invoices) - 1) : SucceededIn(log, i) => invoices[i + 1].signed
         /\ ( /\ Len(invoices) = 3
              /\ FailedIn(log, 1) /\ ~FailedIn(log, 0) /\ ~FailedIn(log, 2) )
            => /\ invoices[1].signed /\ invoices[3].signed
               /\ sum.signedCount = 2
               /\ sum.failed = << Label(invoices[2].session) >>

\* a run over 3 invoices reached its summary with only the second one failed
C3_Witness ==
  \E r \in 1..Len(runs) :
    /\ runs[r].summary # << >>
    /\ Len(invoices) = 3
    /\ FailedIn(runs[r].log, 1) /\ ~FailedIn(runs[r].log, 0) /\ ~FailedIn(runs[r].log, 2)

\* a run whose readiness check was false sent nothing but that check, showed
\* no summary and has ended
C4_NothingSent ==
  \A r \in 1..Len(runs) :
    RejectedRun(runs[r]) =>
      /\ \A k \in 1..Len(runs[r].log) : runs[r].log[k].kind \in { "VERIFY", "verified" }
      /\ runs[r].summary = << >>
      /\ runs[r].pc = "done"

\* the step that takes a false readiness check changes no invoice
C4_NothingChanged ==
  \A r \in 1..Len(runs) :
    (runs[r].pc = "verify" /\ RejectedRun(runs'[r])) =>
      /\ invoices' = invoices
      /\ signedSuccess' = signedSuccess

\* C4: when the readiness check returns false the run ends with no PREPARE,
\* AGENT-SIGN or COMPLETE request, no change of any invoice and no summary.
C4_ReadinessGate == [](C4_NothingSent) /\ [][C4_NothingChanged]_vars

\* a run ended on a false readiness check
C4_Witness ==
  \E r \in 1..Len(runs) : RejectedRun(runs[r]) /\ runs[r].pc = "done" /\ ~isSigning

\* C5: a call of signWithCert while isSigning holds starts no run, sends no
\* request and changes no field of the component.
C5_ReentrantCallIsNoOp ==
  [][ \A c \in Certs :
        (isSigning /\ SignWithCert(c)) =>
          UNCHANGED << initPc, isLoading, termsAccepted, signedSuccess, isSigning, invoices,
                       currentPage, signingProgress, loads, runs, acceptSessions, faults >>
    ]_vars

\* a run waits for its summary dialog with the terms accepted, so that a call
\* of signWithCert reaches the isSigning test
C5_Witness ==
  /\ isSigning /\ termsAccepted
  /\ \E r \in 1..Len(runs) : runs[r].pc = "summary"

\* no invocation of signWithCert is under way
NoActiveRun == \A r \in 1..Len(runs) : runs[r].pc = "done"

\* C6: isSigning, once set, is reset when the run's awaited calls have been
\* answered, on every exit path; with no run under way isSigning is false, so
\* that a new run can start.
C6_SigningReleased == [](NoActiveRun => ~isSigning) /\ (isSigning ~> ~isSigning)

\* a run ended through the outer catch block and a second run was started
C6_Witness ==
  /\ Len(runs) = 2
  /\ \E k \in 1..Len(runs[1].log) : runs[1].log[k].kind = "fatal"

\* C7 (as claimed): no invoice is signed and carries an error.
C7_SignedXorFailed ==
  \A i \in 1..Len(invoices) : ~(invoices[i].signed /\ invoices[i].error # NULL)

\* this step appends to run r's log a request for invoice index i
NewRequestFor(r, i) ==
  LET old == IF r <= Len(runs) THEN Len(runs[r].log) ELSE 0
  IN \E k \in (old + 1)..Len(runs'[r].log) :
       /\ runs'[r].log[k].kind \in { "PREPARE", "AGENT", "COMPLETE" }
       /\ runs'[r].log[k].inv = i

\* C8 (as claimed): once an invoice is signed or carries an error, no step
\* sends a request for it or changes its signed and error fields.
C8_TerminalStates ==
  [][ \A i \in 1..Len(invoices) :
        (invoices[i].signed \/ invoices[i].error # NULL) =>
          /\ invoices'[i].signed = invoices[i].signed
          /\ invoices'[i].error = invoices[i].error
          /\ \A r \in 1..Len(runs') : ~NewRequestFor(r, i - 1)
    ]_vars

\* C9: signing never changes the signingSessionId stored at ACCEPT time, and
\* every PREPARE request, of any run, carries that value.
C9_AcceptTokenKept ==
  /\ \A i \in 1..Len(invoices) : invoices[i].session = acceptSessions[i]
  /\ \A r \in 1..Len(runs) : \A k \in 1..Len(runs[r].log) :
       LET ev == runs[r].log[k]
       IN ev.kind = "PREPARE" => ev.body.signingSessionId = AcceptToken(ev.inv)

\* a second run sent a PREPARE for an invoice for which the first run had
\* stored a PREPARE response with another signingSessionId
C9_Witness ==
  /\ Len(runs) = 2
  /\ invoices[1].prepareResp # << >>
  /\ \E j \in 1..Len(runs[1].log) :
       /\ runs[1].log[j].kind = "prepared" /\ runs[1].log[j].inv = 0
       /\ Truthy(runs[1].log[j].body.digest)
       /\ runs[1].log[j].body.signingSessionId # AcceptToken(0)
  /\ \E k \in 1..Len(runs[2].log) :
       runs[2].log[k].kind = "PREPARE" /\ runs[2].log[k].inv = 0

\* C10: after an ACCEPT response without sessions there is no invoice and no
\* PDF load, loading has ended, and no call of signWithCert ever passes its
\* guards, so no readiness check and no signing request is sent.
C10_EmptyAccept ==
  (initPc \in { "loading", "empty", "done" } /\ Len(acceptSessions) = 0) =>
    /\ initPc = "empty"
    /\ invoices = << >>
    /\ loads = << >>
    /\ ~isLoading
    /\ runs = << >>
    /\ ~isSigning

\* ACCEPT answered without sessions and the terms are accepted, so that a
\* call of signWithCert reaches the test of the invoice list
C10_Witness ==
  /\ initPc = "empty"
  /\ termsAccepted
  /\ swal.title = "Attention"

\* after a failed ACCEPT call there is no invoice, no PDF load and no signing
\* run, and loading has ended
C11_NoBatch ==
  initPc = "failed" =>
    /\ invoices = << >>
    /\ loads = << >>
    /\ ~isLoading
    /\ runs = << >>

\* the step that takes a failed ACCEPT call shows the dialog of the error's
\* class: expired for 400 and 401, invalid link for 404, otherwise the
\* message of the error (that of its body first) or, without one, the
\* generic text
C11_Classified ==
  \A e \in HttpErrors :
    AcceptFail(e) =>
      /\ invoices' = << >> /\ loads' = << >> /\ ~isLoading'
      /\ e.status \in { 400, 401 } => swal' = Dialog("Session expiree", "sessionExpired")
      /\ e.status = 404 => swal' = Dialog("Lien invalide", "invalidLink")
      /\ e.status \notin { 400, 401, 404 } =>
           /\ swal'.title = "Erreur"
           /\ e.errMsg # NULL => swal'.text = e.errMsg
           /\ (e.errMsg = NULL /\ e.message # NULL) => swal'.text = e.message
           /\ (e.errMsg = NULL /\ e.message = NULL) => swal'.text = "loadFailed"

AllLoadsResolved == \A k \in 1..Len(loads) : loads[k].pc = "done"

\* an invoice stops loading exactly when its load resolves, a failed load
\* leaves no page, and the batch load ends exactly when all loads resolved
C12_LoadsResolved ==
  /\ Len(loads) = Len(invoices)
  /\ \A k \in 1..Len(invoices) :
       /\ invoices[k].loading <=> loads[k].pc # "done"
       /\ invoices[k].error = "loadError" => invoices[k].pages = << >>
  /\ invoices # << >> => (isLoading <=> ~AllLoadsResolved)

\* a step of the load of one invoice changes neither the view nor the load
\* of another invoice, and when it fails it sets the error and ends the
\* loading of its own invoice and nothing else
C12_LoadStepLocal ==
  \A k \in 1..Len(loads) :
    (Len(loads') = Len(loads) /\ loads'[k] # loads[k]) =>
      /\ \A j \in 1..Len(loads) :
           j # k => invoices'[j] = invoices[j] /\ loads'[j] = loads[j]
      /\ invoices'[k].error # invoices[k].error =>
           invoices'[k] = [ invoices[k] EXCEPT !.error = "loadError", !.loading = FALSE ]

\* C12: the PDF loads of a batch are independent under every interleaving:
\* a failing load sets only its own invoice's error, with an empty page list,
\* and changes no sibling; the batch load ends (isLoading = false) only when
\* every load has resolved, each invoice then having loading = false.
C12_IndependentLoads == [](C12_LoadsResolved) /\ [][C12_LoadStepLocal]_vars

\* the batch load of three invoices has ended, the load of the second one
\* having failed while the other two rendered their pages
C12_Witness ==
  /\ Len(invoices) = 3
  /\ ~isLoading
  /\ invoices[2].error = "loadError" /\ invoices[2].pages = << >>
  /\ Len(invoices[1].pages) = 2 /\ Len(invoices[3].pages) = 2

\* entry k of this log is a PREPARE response without a digest
NoDigestAt(log, k) == log[k].kind = "prepared" /\ ~Truthy(log[k].body.digest)

\* in a run whose PREPARE for an invoice was answered without a digest, no
\* agent or COMPLETE request was sent for that invoice, its label is in the
\* failure list once, and the next thing the run did is the PREPARE of the
\* following invoice or, after the last invoice, the summary
C13_RunWentOn ==
  \A r \in 1..Len(runs) : \A k \in 1..Len(runs[r].log) :
    LET log == runs[r].log
        i   == log[k].inv
    IN NoDigestAt(log, k) =>
         /\ \A j \in 1..Len(log) :
              log[j].inv = i => log[j].kind \notin { "AGENT", "COMPLETE", "completed" }
         /\ Cardinality({ n \in 1..Len(runs[r].failed) :
                            runs[r].failed[n] = Label(acceptSessions[i + 1]) }) = 1
         /\ k < Len(log)
         /\ IF i + 1 < Len(invoices)
              THEN log[k + 1].kind = "PREPARE" /\ log[k + 1].inv = i + 1
              ELSE log[k + 1].kind = "SUMMARY"

\* the step that takes a PREPARE response without a digest sets the error of
\* its invoice, leaves its signed flag as it was and changes no other invoice
C13_OnlyThatInvoice ==
  \A r \in 1..Len(runs) :
    LET i    == runs[r].i
        log2 == runs'[r].log
    IN ( /\ runs[r].pc = "prepare"
         /\ Len(log2) > Len(runs[r].log)
         /\ NoDigestAt(log2, Len(runs[r].log) + 1) )
       => /\ invoices'[i + 1] = [ invoices[i + 1] EXCEPT !.error = "digestAbsent" ]
          /\ \A j \in 1..Len(invoices) : j # i + 1 => invoices'[j] = invoices[j]

\* C13: a PREPARE response without a digest fails that invoice alone: no
\* AGENT-SIGN and no COMPLETE request is sent for it, its error is set, its
\* label joins the failure list, the step does not mark it signed, and the
\* run goes on with the next invoice.
C13_MissingDigest == [](C13_RunWentOn) /\ [][C13_OnlyThatInvoice]_vars

\* the PREPARE of the first of three invoices was answered without a digest
\* and the run sent the PREPARE of the second one
C13_Witness ==
  \E r \in 1..Len(runs) : \E k \in 1..Len(runs[r].log) :
    /\ Len(invoices) = 3
    /\ NoDigestAt(runs[r].log, k) /\ runs[r].log[k].inv = 0
    /\ invoices[1].error = "digestAbsent" /\ ~invoices[1].signed
    /\ runs[r].pc = "prepare" /\ runs[r].i = 1

\* entry k of this log is a failure of signViaAgent: an answer that lacks
\* the signature or the certificate, or a failed call
AgentFailureAt(log, k) ==
  \/ log[k].kind = "agentFailed"
  \/ /\ log[k].kind = "agentSigned"
     /\ \/ log[k].body.signatureValue \in { NULL, "" }
        \/ log[k].body.certificate \in { NULL, "" }

\* in a run where signViaAgent failed for an invoice no COMPLETE request was
\* sent for it, its label is in the failure list, and the run went on to the
\* PREPARE of the following invoice or, after the last one, to the summary
C14_NoCompleteAndGoesOn ==
  \A r \in 1..Len(runs) : \A k \in 1..Len(runs[r].log) :
    LET log == runs[r].log
        i   == log[k].inv
    IN AgentFailureAt(log, k) =>
         /\ \A j \in 1..Len(log) :
              log[j].inv = i => log[j].kind \notin { "COMPLETE", "completed" }
         /\ \E n \in 1..Len(runs[r].failed) :
              runs[r].failed[n] = Label(acceptSessions[i + 1])
         /\ k < Len(log)
         /\ IF i + 1 < Len(invoices)
              THEN log[k + 1].kind = "PREPARE" /\ log[k + 1].inv = i + 1
              ELSE log[k + 1].kind = "SUMMARY"

\* the step that takes an answer of the agent: an answer with signature and
\* certificate is no failure; any other answer and any failed call is one,
\* and the error it leaves on the invoice tells the unreachable agent
\* (status 0) from the other failed calls and from the invalid answer
C14_ErrorOfTheStep ==
  \A r \in 1..Len(runs) :
    LET i    == runs[r].i
        n    == Len(runs[r].log) + 1
        log2 == runs'[r].log
        ev   == log2[n]
    IN ( runs[r].pc = "agent" /\ Len(log2) >= n ) =>
         /\ ev.kind \in { "agentSigned", "agentFailed" }
         /\ ~AgentFailureAt(log2, n) => invoices'[i + 1].error = invoices[i + 1].error
         /\ AgentFailureAt(log2, n) <=> runs'[r].pc # "complete"
         /\ ev.kind = "agentSigned" /\ AgentFailureAt(log2, n)
              => invoices'[i + 1].error = "agentInvalid"
         /\ ev.kind = "agentFailed" /\ ev.body.status = 0
              => invoices'[i + 1].error = "agentUnreachable"
         /\ ev.kind = "agentFailed" /\ ev.body.status # 0
              => invoices'[i + 1].error = "agentFailed"

\* C14: signViaAgent fails when the agent's answer lacks signatureValue or
\* certificate and when the call fails; the unreachable agent (status 0)
\* gives another error than any other failed call and than the invalid
\* answer; after each of these failures no COMPLETE request is sent for the
\* invoice and the loop goes on with the following invoices.
C14_AgentFailure == [](C14_NoCompleteAndGoesOn) /\ [][C14_ErrorOfTheStep]_vars

\* the agent was unreachable for the second of three invoices and the run
\* sent the PREPARE of the third
C14_Witness ==
  \E r \in 1..Len(runs) : \E k \in 1..Len(runs[r].log) :
    /\ Len(invoices) = 3
    /\ runs[r].log[k].kind = "agentFailed" /\ runs[r].log[k].body.status = 0
    /\ runs[r].log[k].inv = 1
    /\ invoices[2].error = "agentUnreachable"
    /\ runs[r].pc = "prepare" /\ runs[r].i = 2

\* the labels of the invoices of which a step failed in the run of this log,
\* in the order of the batch
FailedLabels(log) ==
  LET labels == [ k \in 1..Len(acceptSessions) |-> Label(acceptSessions[k]) ]
      FailedHere(l) == FailedIn(log, l[2] - 1)
  IN SelectSeq(labels, FailedHere)

\* the run of this record ended through the outer catch block
Fatal(run) == \E k \in 1..Len(run.log) : run.log[k].kind = "fatal"

C16_TermsFirst ==
  [][ \A c \in Certs :
        (~termsAccepted /\ SignWithCert(c)) =>
          /\ UNCHANGED << isSigning, invoices, currentPage, signingProgress, signedSuccess >>
          /\ UNCHANGED << runs, loads, initPc, isLoading >>
          /\ swal' = Dialog("Attention", "acceptTerms")
    ]_vars

\* the terms prompt is on screen while a run waits for an answer of the
\* signing loop, the terms having been withdrawn after the run's start
C16_Witness ==
  /\ ~termsAccepted /\ isSigning
  /\ swal.title = "Attention"
  /\ \E r \in 1..Len(runs) : runs[r].pc \in { "prepare", "agent", "complete" }

\* a dialog that tells the user that no certificate was found
NoCertificateGuidance(sw) == sw.title \in { "Aucun certificat", "Cle USB non detectee" }

\* C17 (as claimed): loadCertificates shows the agent-not-running guidance
\* when the local endpoint is unreachable (status 0), and another, the
\* no-certificate guidance, when the agent answers with an empty list or with
\* a failure marker; in both cases the certificate list ends empty.
C17_ListingGuidance ==
  [][ \A ans \in CertListAnswers :
        /\ (LoadCertificatesFail(ans) /\ ans.status = 0) =>
             /\ swal' = Dialog("Agent PROSign non detecte", "startAgent")
             /\ certificates' = << >>
        /\ (LoadCertificatesRespond(ans) /\ ans.res \in { "empty", "failure" }) =>
             /\ NoCertificateGuidance(swal')
             /\ certificates' = << >>
    ]_vars

\* C18 (as claimed): in the variant of part_002 every COMPLETE request
\* carries the signingSessionId that ACCEPT returned for its invoice, not a
\* value of the PREPARE response.
C18_VariantCompleteToken ==
  build = "part_002" =>
    \A r \in 1..Len(runs) : \A k \in 1..Len(runs[r].log) :
      LET ev == runs[r].log[k]
      IN ev.kind = "COMPLETE" => ev.body.signingSessionId = AcceptToken(ev.inv)

\* the number of PREPARE requests of this log for invoice index i
PreparesFor(log, i) ==
  Cardinality({ k \in 1..Len(log) : log[k].kind = "PREPARE" /\ log[k].inv = i })

\* no run sends two PREPARE requests for one invoice, and a run that passed
\* the readiness check and ended has sent one for every invoice of the batch
C19_OnePrepareEach ==
  \A r \in 1..Len(runs) :
    /\ \A i \in 0..(Len(invoices) - 1) : PreparesFor(runs[r].log, i) <= 1
    /\ (runs[r].pc = "done" /\ ~RejectedRun(runs[r])) =>
         /\ \A i \in 0..(Len(invoices) - 1) : PreparesFor(runs[r].log, i) = 1
         /\ CountKind(runs[r].log, "PREPARE") = Len(invoices)

\* C19: once the loop has started it runs to its end: if every call that is
\* sent is answered, the run sends exactly one PREPARE for every invoice of
\* the batch, whatever fails and also when ngOnDestroy runs in the middle of
\* the run, and the run ends with isSigning = false.
C19_LoopCompletes ==
  /\ [](C19_OnePrepareEach)
  /\ ~NoActiveRun ~> (NoActiveRun /\ ~isSigning)

\* a run over three invoices ended, the component having been destroyed
\* while the run worked on the first invoice
C19_Witness ==
  /\ destroyed /\ ~isSigning
  /\ \E r \in 1..Len(runs) :
       /\ runs[r].pc = "done"
       /\ CountKind(runs[r].log, "PREPARE") = 3
       /\ runs[r].destroyedAt = 1

\* the requests of the signing loop sent in this log and not yet answered
Unanswered(log) ==
  Cardinality({ k \in 1..Len(log) : log[k].kind \in { "PREPARE", "AGENT", "COMPLETE" } })
  - Cardinality({ k \in 1..Len(log) :
                    log[k].kind \in { "prepared", "prepareFailed", "agentSigned",
                                      "agentFailed", "completed", "completeFailed" } })

\* the sum of Unanswered over the first n runs
RECURSIVE InFlight(_)
InFlight(n) == IF n = 0 THEN 0 ELSE Unanswered(runs[n].log) + InFlight(n - 1)

\* C20: under every interleaving of signWithCert calls with the awaits of a
\* running loop, at most one PREPARE, AGENT-SIGN or COMPLETE request is in
\* flight and at most one invocation of the signing loop is under way.
C20_OneLoopOneRequest ==
  /\ InFlight(Len(runs)) <= 1
  /\ Cardinality({ r \in 1..Len(runs) : runs[r].pc # "done" }) <= 1
  /\ \A r \in 1..Len(runs) :
       Unanswered(runs[r].log) = IF runs[r].pc \in { "prepare", "agent", "complete" }
                                   THEN 1 ELSE 0

\* a second run waits for the agent's answer, the first run having ended,
\* with the terms accepted, so that a call of signWithCert would reach the
\* isSigning test
C20_Witness ==
  /\ Len(runs) = 2
  /\ runs[1].pc = "done" /\ runs[2].pc = "agent"
  /\ termsAccepted /\ isSigning

\* a signing request of run r is awaiting its answer
RequestInFlight(r) == runs[r].pc \in { "prepare", "agent", "complete" }

\* C21: whenever a PREPARE, agent or COMPLETE request for the invoice at index
\* i is in flight, currentPage = i, whatever the user does with goToPage,
\* prevPage and nextPage
C21_CurrentIsTheOneSigned ==
  \A r \in 1..Len(runs) : RequestInFlight(r) => currentPage = runs[r].i

\* the fields of invoices[k] that its loadInvoicePdf call has assigned: the
\* end of its try block assigns pages and loading, its catch block loading
\* and error (a load that ended with no page ended in the catch block)
LoaderWrites(k) ==
  IF k > Len(loads) \/ loads[k].pc # "done" THEN { }
  ELSE IF invoices[k].pages = << >> THEN { "loading", "error" }
  ELSE { "pages", "loading" }

\* the fields of invoices[k] that the signing loops have assigned: prepareResp
\* after a PREPARE answered with a digest, agentResp after a valid agent
\* answer, signed after COMPLETE, error in the catch block of the loop body
SignerWrites(k) ==
  LET Has(P(_)) == \E r \in 1..Len(runs) : \E n \in 1..Len(runs[r].log) :
                     runs[r].log[n].inv = k - 1 /\ P(runs[r].log[n])
      Prepared(ev) == ev.kind = "prepared" /\ ~FailureEvent(ev)
      AgentSigned(ev) == ev.kind = "agentSigned" /\ ~FailureEvent(ev)
      Completed(ev) == ev.kind = "completed"
  IN (IF Has(Prepared) THEN { "prepareResp" } ELSE { })
       \cup (IF Has(AgentSigned) THEN { "agentResp" } ELSE { })
       \cup (IF Has(Completed) THEN { "signed" } ELSE { })
       \cup (IF Has(FailureEvent) THEN { "error" } ELSE { })

\* C22: no field of an InvoiceView is written both by loadInvoicePdf and by
\* the signing loop, also when signWithCert starts while PDF loads are pending
C22_DisjointOwnership ==
  \A k \in 1..Len(invoices) : LoaderWrites(k) \cap SignerWrites(k) = { }

\* C23: every PREPARE, agent and COMPLETE request of a run carries the alias,
\* serial number and algorithm of the certificate signWithCert was called
\* with, for all invoices, whatever becomes of the certificate selection
\* while the run is under way
C23_CertificateOfTheRun ==
  \A r \in 1..Len(runs) : \A k \in 1..Len(runs[r].log) :
    LET ev == runs[r].log[k]
        cert == runs[r].cert
    IN /\ ev.kind = "PREPARE" =>
            ev.body.alias = cert.alias /\ ev.body.serialNumber = cert.serialNumber
       /\ ev.kind = "AGENT" =>
            ev.body.algorithm = cert.algorithm /\ ev.body.alias = cert.alias
       /\ ev.kind = "COMPLETE" => ev.body.algorithm = cert.algorithm

\* a run called with the second listed certificate has signed its first
\* invoice and sent the PREPARE of its second one after the user emptied
\* the certificate list
C23_Witness ==
  \E r \in 1..Len(runs) :
    /\ runs[r].cert.alias = "alias2"
    /\ runs[r].pc = "prepare" /\ runs[r].i = 1
    /\ SucceededIn(runs[r].log, 0)
    /\ certificates = << >> /\ selectedCert = "other"

\* no ended load holds an object URL that is not revoked
NoLiveHandle == \A k \in 1..Len(loads) : loads[k].pc = "done" => loads[k].objectUrl # "live"

\* a step that ends the load of invoice k: a load that failed at the fetch of
\* the bytes never had an object URL and revokes none, every other one ends
\* with its object URL revoked; and only a live object URL gets revoked
LoadEndStep(k) ==
  /\ (loads[k].pc # "done" /\ loads'[k].pc = "done") =>
        IF loads[k].pc = "fetch"
          THEN loads[k].objectUrl = "null" /\ loads'[k].objectUrl = "null"
          ELSE loads[k].objectUrl = "live" /\ loads'[k].objectUrl = "revoked"
  /\ (loads'[k].objectUrl = "revoked" /\ loads[k].objectUrl # "revoked") =>
        loads[k].objectUrl = "live"

\* C24: every object URL loadInvoicePdf creates is revoked when that load
\* resolves, on success and on every failure after its creation; after the
\* batch load no object URL is left unreleased; none is revoked that was
\* never created
C24_HandlesReleased ==
  /\ [](NoLiveHandle)
  /\ [](~isLoading => \A k \in 1..Len(loads) : loads[k].objectUrl # "live")
  /\ [][\A k \in 1..Len(loads) : Len(loads') = Len(loads) => LoadEndStep(k)]_vars

\* the batch load has ended; one load failed after its object URL was
\* created, which is revoked, and another one ended well
C24_Witness ==
  /\ initPc = "done" /\ ~isLoading
  /\ \E k \in 1..Len(loads) :
       invoices[k].error = "loadError" /\ loads[k].objectUrl = "revoked"
  /\ \E k \in 1..Len(loads) :
       invoices[k].pages # << >> /\ loads[k].objectUrl = "revoked"

\* the readiness check of this run returned true
PassedRun(run) ==
  \E k \in 1..Len(run.log) : run.log[k].kind = "verified" /\ run.log[k].body.isValid

\* the texts updateLoading shows during the loop
ProgressTexts == { "Preparation", "Signature locale", "Finalisation" }

\* a run that passed the readiness check has no summary while it is in its
\* loop and exactly one once the loop has ended, the last entry of its log
\* but for the outer catch block, with every invoice resolved before it
OneSummary ==
  \A r \in 1..Len(runs) :
    LET run == runs[r]
        n   == CountKind(run.log, "SUMMARY")
    IN /\ n <= 1
       /\ ~PassedRun(run) => n = 0
       /\ RequestInFlight(r) => n = 0
       /\ (PassedRun(run) /\ run.pc \in { "summary", "done" }) =>
            /\ n = 1
            /\ \A i \in 0..(run.total - 1) : SucceededIn(run.log, i) \/ FailedIn(run.log, i)
            /\ \A k \in 1..Len(run.log) :
                 run.log[k].kind = "SUMMARY" =>
                   \A j \in (k + 1)..Len(run.log) : run.log[j].kind = "fatal"

\* a step of run r that leaves it in its loop fires no dialog: the dialog on
\* screen keeps its title and, if there is one, shows a progress text
ProgressOnly(r) ==
  (runs'[r] # runs[r] /\ runs'[r].pc \in { "prepare", "agent", "complete" }) =>
     /\ swal'.title = swal.title
     /\ swal'.title # "none" => swal'.text \in ProgressTexts

\* C25: during the loop only progress updates are shown, no failure on its
\* own; every run that passed the readiness check shows one summary, after
\* its last invoice has resolved
C25_SummarizedOnce ==
  /\ [](OneSummary)
  /\ [][\A r \in 1..Len(runs) : ProgressOnly(r)]_vars

\* a run over two invoices of which the first failed went on to the second
\* and then showed its summary
C25_Witness ==
  \E r \in 1..Len(runs) :
    /\ runs[r].total >= 2
    /\ FailedIn(runs[r].log, 0) /\ SucceededIn(runs[r].log, 1)
    /\ runs[r].pc = "summary"
    /\ swal = Dialog("partial", "summary")

\* C26: in every run the agent request for an invoice follows that invoice's
\* PREPARE answer, which has a digest, and carries that digest; the COMPLETE
\* request follows the agent's answer to that request, which has both fields,
\* and carries its signatureValue and certificate; so no request carries a
\* value of another invoice or of an earlier run
C26_DataChain ==
  \A r \in 1..Len(runs) : \A k \in 1..Len(runs[r].log) :
    LET log == runs[r].log
        ev  == log[k]
    IN /\ ev.kind = "AGENT" =>
            /\ k > 2
            /\ log[k - 1].kind = "prepared" /\ log[k - 1].inv = ev.inv
            /\ log[k - 2].kind = "PREPARE" /\ log[k - 2].inv = ev.inv
            /\ Truthy(log[k - 1].body.digest)
            /\ ev.body.digest = log[k - 1].body.digest
       /\ ev.kind = "COMPLETE" =>
            /\ k > 2
            /\ log[k - 1].kind = "agentSigned" /\ log[k - 1].inv = ev.inv
            /\ log[k - 2].kind = "AGENT" /\ log[k - 2].inv = ev.inv
            /\ Truthy(log[k - 1].body.signatureValue)
            /\ Truthy(log[k - 1].body.certificate)
            /\ ev.body.signatureValue = log[k - 1].body.signatureValue
            /\ ev.body.certificate = log[k - 1].body.certificate
            /\ ev.body.signatureValue = "sig/" \o log[k - 2].body.digest

\* the first run signed the invoice with one digest; the second run got
\* another digest for the same invoice and has sent its COMPLETE request
C26_Witness ==
  /\ Len(runs) = 2
  /\ LET DigestOf(log, i) ==
           { log[k].body.digest : k \in { j \in 1..Len(log) :
                                           log[j].kind = "prepared" /\ log[j].inv = i } }
     IN /\ DigestOf(runs[1].log, 0) = { "dgA" }
        /\ DigestOf(runs[2].log, 0) = { "dgB" }
  /\ SucceededIn(runs[1].log, 0)
  /\ runs[2].pc = "complete" /\ runs[2].i = 0

\* C27: the readiness check resolves to a boolean for every answer of the
\* agent's certificate list call, a failing call included: true exactly when
\* the call succeeds with a non-empty list not marked as failure; false when
\* the agent is unreachable (status 0), when the call fails otherwise, and
\* when the body is null, of length zero or has success = false.  A run goes
\* on to its loop exactly when it is true.
C27_ReadinessIsBoolean ==
  \A r \in 1..Len(runs) : \A k \in 1..Len(runs[r].log) :
    runs[r].log[k].kind = "verified" =>
      LET ans     == runs[r].log[k].body.answer
          isValid == runs[r].log[k].body.isValid
      IN /\ isValid \in BOOLEAN
         /\ isValid <=> (ans.ok /\ ans.res = "list")
         /\ ~ans.ok => ~isValid
         /\ (ans.ok /\ ans.res \in { NULL, "empty", "failure" }) => ~isValid
         /\ isValid <=> (Len(runs[r].log) > k \/ runs[r].pc = "prepare")
         /\ ~isValid => runs[r].pc = "done" /\ ~Fatal(runs[r])

\* a run was given up because the agent answered with a list of length zero
C27_Witness ==
  \E r \in 1..Len(runs) :
    /\ runs[r].pc = "done"
    /\ runs[r].log[Len(runs[r].log)].kind = "verified"
    /\ runs[r].log[Len(runs[r].log)].body.answer.res = "empty"

\* C28: the outcome of a run is all-signed when no invoice failed, none when
\* every invoice failed, and partial only when at least one invoice failed
\* and at least one did not: a run in which every invoice failed is not
\* reported as partial
C28_ThreeOutcomes ==
  \A r \in 1..Len(runs) :
    runs[r].summary # << >> =>
      LET sum == runs[r].summary[1]
          n   == Len(sum.failed)
      IN /\ n = 0 => sum.kind = "success"
         /\ sum.kind = "partial" => (0 < n /\ n < sum.total)
         /\ (n = sum.total /\ n > 0) => sum.kind \notin { "success", "partial" }

\* the labels of the invoices whose signed flag is false, in batch order
UnsignedLabels ==
  LET labels == [ k \in 1..Len(invoices) |-> Label(invoices[k].session) ]
      Unsigned(l) == \E k \in 1..Len(invoices) :
                       Label(invoices[k].session) = l /\ ~invoices[k].signed
  IN SelectSeq(labels, Unsigned)

\* C29: when a run shows its summary, first run or later one, the signedCount
\* it reports is the number of invoices whose signed flag is true and the
\* failures it reports are exactly the invoices whose signed flag is false
C29_CountMatchesFlags ==
  \A r \in 1..Len(runs) :
    runs[r].pc = "summary" =>
      LET sum == runs[r].summary[1]
      IN /\ sum.signedCount = Cardinality({ k \in 1..Len(invoices) : invoices[k].signed })
         /\ sum.failed = UnsignedLabels

\* in this log the three calls of invoice index i succeeded one after the
\* other: PREPARE answered with a digest, the agent with both fields, and
\* COMPLETE, sent with the token ACCEPT returned for the invoice, acknowledged
SignedChain(log, i) ==
  \E n \in 6..Len(log) :
    /\ \A j \in (n - 5)..n : log[j].inv = i
    /\ log[n - 5].kind = "PREPARE"
    /\ log[n - 4].kind = "prepared" /\ ~FailureEvent(log[n - 4])
    /\ log[n - 3].kind = "AGENT"
    /\ log[n - 2].kind = "agentSigned" /\ ~FailureEvent(log[n - 2])
    /\ log[n - 1].kind = "COMPLETE"
    /\ log[n - 1].body.signingSessionId = AcceptToken(i)
    /\ log[n].kind = "completed"

\* C30: an invoice is flagged signed exactly if, in one run, its PREPARE and
\* agent calls succeeded and its COMPLETE request, carrying the
\* signingSessionId ACCEPT returned for it, was acknowledged; a failed step
\* or a failed readiness check sets no signed flag
C30_SignedOnlyAfterComplete ==
  \A k \in 1..Len(invoices) :
    invoices[k].signed <=> \E r \in 1..Len(runs) : SignedChain(runs[r].log, k - 1)

\* a run failed its first invoice, which is not flagged, and signed its second
C30_Witness ==
  /\ Len(invoices) >= 2
  /\ ~invoices[1].signed /\ invoices[1].error # NULL
  /\ invoices[2].signed
  /\ \E r \in 1..Len(runs) : FailedIn(runs[r].log, 0) /\ SignedChain(runs[r].log, 1)

\* get allSigned(): the batch is not empty and every invoice is signed
AllSigned == Len(invoices) > 0 /\ \A k \in 1..Len(invoices) : invoices[k].signed

\* C31: in every reachable state, after any number of signing runs,
\* signedSuccess = true implies allSigned, and while isSigning is false
\* signingProgress is null
C31_SuccessMeansAllSigned ==
  /\ signedSuccess => AllSigned
  /\ ~isSigning => signingProgress = << >>

\* a first run failed the invoice, a second run signed it and its summary
\* dialog was closed: signedSuccess is true and no run is under way
C31_Witness ==
  /\ Len(runs) = 2
  /\ FailedIn(runs[1].log, 0) /\ SucceededIn(runs[2].log, 0)
  /\ signedSuccess /\ AllSigned
  /\ ~isSigning /\ signingProgress = << >>

====
